---- MODULE Spec2Model ----
(***************************************************************************)
(* A model of django-commands' parameter contract (commands/base.py):      *)
(* Param, CommandHandlerBase.validate_auth / validate_permissions /        *)
(* validate_param_existence / validate_param_types / to_definition, and    *)
(* the per-request pipeline that calls them in order.                      *)
(*                                                                         *)
(* Python values are tagged pairs <<tag, payload>>.  Python strings are    *)
(* TLA+ strings; a Python list is a TLA+ sequence; a Python dict is a      *)
(* sequence of <<key, value>> pairs in insertion order.  The result of a   *)
(* Python call is <<"ok", value>> or <<"raise", exception class>>.         *)
(***************************************************************************)
EXTENDS Integers, Sequences, FiniteSets, TLC

VARIABLES
    params,                \* cls.params: the declared Param objects, in order
    auth_required,         \* cls.auth_required
    required_permissions,  \* cls.required_permissions
    user,                  \* request.user: [is_authenticated, perms]
    command_data,          \* the request's data: key -> list of posted values
    stage,                 \* where the request is in the pipeline
    ran,                   \* the checks that have run, in the order they ran
    auth_result,           \* Ok(what validate_auth returned), or NotRun
    perm_result,           \* Ok(what validate_permissions returned), or NotRun
    existence_result,      \* Ok(what validate_param_existence returned), or NotRun
    types_result,          \* what validate_param_types returned or raised, or NotRun
    definition             \* Ok(what to_definition returned), or NotRun

vars == <<params, auth_required, required_permissions, user, command_data,
          stage, ran, auth_result, perm_result, existence_result,
          types_result, definition>>

contract == <<params, auth_required, required_permissions>>
request == <<user, command_data>>

\* The longest list of values posted under one repeated field.
MaxValues == 2

NotRun == <<"not run">>

-----------------------------------------------------------------------------
(* Python values *)

PyInt(n) == <<"int", n>>
PyFloat(n) == <<"float", n>>
PyStr(s) == <<"str", s>>
PyNone == <<"NoneType", "None">>
PyList(elems) == <<"list", elems>>
PyDict(pairs) == <<"dict", pairs>>
PyFile(name) == <<"file", name>>

Ok(v) == <<"ok", v>>
Raise(e) == <<"raise", e>>
IsOk(r) == r[1] = "ok"

\* ", ".join(names)
RECURSIVE Join(_, _)
Join(names, sep) ==
    IF names = <<>> THEN ""
    ELSE IF Len(names) = 1 THEN names[1]
    ELSE names[1] \o sep \o Join(Tail(names), sep)

\* The characters of a Python string, as iterating over it yields them.
Chars(s) == [i \in 1..Len(s) |-> SubSeq(s, i, i)]

-----------------------------------------------------------------------------
(* base.py: the messages *)

MissingPrefix == "The following parameters were missing: "
WrongTypePrefix == "The following parameters were of the wrong type: "

build_param_message(missing_params) == MissingPrefix \o Join(missing_params, ", ")

build_param_type_message(invalid_params) == WrongTypePrefix \o Join(invalid_params, ", ")

-----------------------------------------------------------------------------
(* base.py: Param.  Param.TYPE.X is written TYPE_X. *)

TYPE_BLOB == "blob"
TYPE_FILE == "file"
TYPE_NUMBER == "number"
TYPE_STRING == "string"
TYPE_OBJECT == "object"
TYPE_BLOB_ARRAY == "blob[]"
TYPE_FILE_ARRAY == "file[]"
TYPE_NUMBER_ARRAY == "number[]"
TYPE_STRING_ARRAY == "string[]"
TYPE_OBJECT_ARRAY == "object[]"

TYPE == {TYPE_BLOB, TYPE_FILE, TYPE_NUMBER, TYPE_STRING, TYPE_OBJECT,
         TYPE_BLOB_ARRAY, TYPE_FILE_ARRAY, TYPE_NUMBER_ARRAY, TYPE_STRING_ARRAY, TYPE_OBJECT_ARRAY}

\* Param(name, type, required=True, default=None)
Param(name, type, required, default) ==
    [name |-> name, type |-> type, required |-> required, default |-> default]

is_multipart(param) == param.type = TYPE_BLOB_ARRAY \/ param.type = TYPE_FILE_ARRAY

key(param) == IF is_multipart(param) THEN param.name \o "[]" ELSE param.name

is_serialized(param) ==
    param.type \in {TYPE_NUMBER, TYPE_STRING, TYPE_OBJECT,
                    TYPE_NUMBER_ARRAY, TYPE_STRING_ARRAY, TYPE_OBJECT_ARRAY}

\* Python's truth value of an object: None, zero and empty containers are false.
Truthy(v) ==
    CASE v[1] = "NoneType" -> FALSE
      [] v[1] \in {"int", "float"} -> v[2] # 0
      [] v[1] = "str" -> v[2] # ""
      [] v[1] \in {"list", "dict"} -> v[2] # <<>>
      [] OTHER -> TRUE

\* Param.dictify: 'default' is there only when the default is truthy.
dictify(param) ==
    IF Truthy(param.default)
    THEN [name |-> param.name, type |-> param.type, required |-> param.required,
          default |-> param.default]
    ELSE [name |-> param.name, type |-> param.type, required |-> param.required]

-----------------------------------------------------------------------------
(* The Python built-ins validate_param_types calls *)

\* json.loads, on the texts a request of this model carries.  Anything that is
\* not a str raises TypeError; a str that is not JSON raises ValueError.
json_loads(raw) ==
    IF raw[1] # "str" THEN Raise("TypeError")
    ELSE CASE raw[2] = "5" -> Ok(PyInt(5))
           [] raw[2] = "\"5\"" -> Ok(PyStr("5"))
           [] raw[2] = "\"world\"" -> Ok(PyStr("world"))
           [] raw[2] = "\"not-a-number\"" -> Ok(PyStr("not-a-number"))
           [] raw[2] = "null" -> Ok(PyNone)
           [] raw[2] = "[]" -> Ok(PyList(<<>>))
           [] raw[2] = "[1, 2]" -> Ok(PyList(<<PyInt(1), PyInt(2)>>))
           [] raw[2] = "[\"a\", \"b\"]" -> Ok(PyList(<<PyStr("a"), PyStr("b")>>))
           [] raw[2] = "[{}]" -> Ok(PyList(<<PyDict(<<>>)>>))
           [] raw[2] = "{}" -> Ok(PyDict(<<>>))
           [] raw[2] = "{\"k\": 1}" -> Ok(PyDict(<< <<PyStr("k"), PyInt(1)>> >>))
           [] OTHER -> Raise("ValueError")

Digits == <<"0", "1", "2", "3", "4", "5", "6", "7", "8", "9">>

IsDecimal(s) ==
    /\ Len(s) > 0
    /\ \A i \in 1..Len(s) : \E d \in 1..10 : Digits[d] = SubSeq(s, i, i)

RECURSIVE DecimalValue(_)
DecimalValue(s) ==
    IF s = "" THEN 0
    ELSE LET last == SubSeq(s, Len(s), Len(s))
             d == CHOOSE k \in 1..10 : Digits[k] = last
         IN  10 * DecimalValue(SubSeq(s, 1, Len(s) - 1)) + (d - 1)

\* float(v): a number converts, a str is parsed (ValueError when it is not a
\* number), anything else is a TypeError.
py_float(v) ==
    CASE v[1] = "int" -> Ok(PyFloat(v[2]))
      [] v[1] = "float" -> Ok(v)
      [] v[1] = "str" -> IF IsDecimal(v[2]) THEN Ok(PyFloat(DecimalValue(v[2])))
                         ELSE Raise("ValueError")
      [] OTHER -> Raise("TypeError")

\* repr(v)
RECURSIVE Repr(_)
Repr(v) ==
    CASE v[1] = "int" -> ToString(v[2])
      [] v[1] = "float" -> ToString(v[2]) \o ".0"
      [] v[1] = "str" -> "'" \o v[2] \o "'"
      [] v[1] = "list" -> "[" \o Join([i \in 1..Len(v[2]) |-> Repr(v[2][i])], ", ") \o "]"
      [] v[1] = "dict" ->
            "{" \o Join([i \in 1..Len(v[2]) |->
                            Repr(v[2][i][1]) \o ": " \o Repr(v[2][i][2])], ", ") \o "}"
      [] OTHER -> v[2]

\* str(v): never fails; a str is returned as it is, anything else is printed.
py_str(v) == IF v[1] = "str" THEN Ok(v) ELSE Ok(PyStr(Repr(v)))

\* iter(v): the elements of a list, the characters of a str, the keys of a dict.
py_iter(v) ==
    CASE v[1] = "list" -> Ok(v[2])
      [] v[1] = "str" -> Ok([i \in 1..Len(v[2]) |-> PyStr(Chars(v[2])[i])])
      [] v[1] = "dict" -> Ok([i \in 1..Len(v[2]) |-> v[2][i][1]])
      [] OTHER -> Raise("TypeError")

Hashable(v) == v[1] \notin {"list", "dict"}

\* d[k] = v on a dict held as a sequence of pairs
DictSet(pairs, k, v) ==
    IF \E i \in 1..Len(pairs) : pairs[i][1] = k
    THEN [i \in 1..Len(pairs) |-> IF pairs[i][1] = k THEN <<k, v>> ELSE pairs[i]]
    ELSE Append(pairs, <<k, v>>)

\* dict(iterable of pairs): an element that cannot be iterated is a TypeError,
\* one that is not of length 2 a ValueError, an unhashable key a TypeError.
RECURSIVE DictFromPairs(_, _)
DictFromPairs(elems, acc) ==
    IF elems = <<>> THEN Ok(PyDict(acc))
    ELSE LET pair == py_iter(Head(elems))
         IN  IF ~IsOk(pair) THEN Raise("TypeError")
             ELSE IF Len(pair[2]) # 2 THEN Raise("ValueError")
             ELSE IF ~Hashable(pair[2][1]) THEN Raise("TypeError")
             ELSE DictFromPairs(Tail(elems), DictSet(acc, pair[2][1], pair[2][2]))

\* dict(v)
py_dict(v) ==
    IF v[1] = "dict" THEN Ok(v)
    ELSE LET it == py_iter(v)
         IN  IF IsOk(it) THEN DictFromPairs(it[2], <<>>) ELSE Raise("TypeError")

\* float, str or dict, by name
Cast(fn, v) ==
    CASE fn = "float" -> py_float(v)
      [] fn = "str" -> py_str(v)
      [] fn = "dict" -> py_dict(v)

RECURSIVE MapCast(_, _, _)
MapCast(fn, elems, acc) ==
    IF elems = <<>> THEN Ok(PyList(acc))
    ELSE LET r == Cast(fn, Head(elems))
         IN  IF IsOk(r) THEN MapCast(fn, Tail(elems), Append(acc, r[2])) ELSE r

\* list(map(fn, values))
py_list_map(fn, values) ==
    LET it == py_iter(values)
    IN  IF IsOk(it) THEN MapCast(fn, it[2], <<>>) ELSE Raise("TypeError")

\* command_data[k]: of the values posted under k, the last (QueryDict)
getitem(data, k) == data[k][Len(data[k])]

\* command_data.getlist(k): every value posted under k
getlist(data, k) == data[k]

-----------------------------------------------------------------------------
(* base.py: CommandHandlerBase *)

\* request.user.has_perms(perm_list): the user holds every permission listed
has_perms(u, perm_list) == \A i \in 1..Len(perm_list) : perm_list[i] \in u.perms

\* validate_auth, asking for a login whatever the command declares
validate_auth_strict(cls_auth_required, u) == u.is_authenticated

validate_auth(cls_auth_required, u) ==
    IF cls_auth_required THEN u.is_authenticated ELSE TRUE

validate_permissions(cls_required_permissions, u) ==
    has_perms(u, cls_required_permissions)

\* missing_names, stopping at the first missing parameter
missing_names_first(cls_params, data) ==
    LET absent == SelectSeq(cls_params,
                            LAMBDA param : param.required /\ key(param) \notin DOMAIN data)
    IN  IF absent = <<>> THEN <<>> ELSE <<absent[1].name>>

\* [param.name for param in cls.params if param.required and param.key not in command_data]
RECURSIVE missing_names(_, _)
missing_names(cls_params, data) ==
    IF cls_params = <<>> THEN <<>>
    ELSE LET param == Head(cls_params)
             rest == missing_names(Tail(cls_params), data)
         IN  IF param.required /\ key(param) \notin DOMAIN data
             THEN <<param.name>> \o rest
             ELSE rest

validate_param_existence(cls_params, data) ==
    LET missing == missing_names(cls_params, data)
    IN  IF Len(missing) > 0 THEN <<FALSE, build_param_message(missing)>>
        ELSE <<TRUE, "">>

to_definition(cls_command_name, cls_params) ==
    [name |-> cls_command_name, params |-> [i \in 1..Len(cls_params) |-> dictify(cls_params[i])]]

\* existing_params, looking the parameters up by name
existing_params_by_name(cls_params, data) ==
    SelectSeq(cls_params, LAMBDA param : param.name \in DOMAIN data)

\* [param for param in cls.params if param.key in command_data]
existing_params(cls_params, data) ==
    SelectSeq(cls_params, LAMBDA param : key(param) \in DOMAIN data)

\* "getting the appropriate version of the request": the list of posted values
\* of a multipart parameter, the decoded last value of any other.
read_values(param, data) ==
    IF is_multipart(param) THEN Ok(getlist(data, key(param)))
    ELSE json_loads(getitem(data, key(param)))

\* The branch of the try block a parameter's type selects.
cast_values(param, values) ==
    CASE param.type = TYPE_BLOB -> Ok(values)
      [] param.type = TYPE_FILE -> Ok(values)
      [] param.type = TYPE_NUMBER -> py_float(values)
      [] param.type = TYPE_STRING -> py_str(values)
      [] param.type = TYPE_OBJECT -> py_dict(values)
      [] param.type = TYPE_BLOB_ARRAY -> Ok(PyList(values))
      [] param.type = TYPE_FILE_ARRAY -> Ok(PyList(values))
      [] param.type = TYPE_NUMBER_ARRAY -> py_list_map("float", values)
      [] param.type = TYPE_STRING_ARRAY -> py_list_map("str", values)
      [] param.type = TYPE_OBJECT_ARRAY -> py_list_map("dict", values)
      [] OTHER -> Raise("TypeError")   \* else: invalid.append(param.name)

\* The exceptions the try block catches.
Caught(exception) == exception = "TypeError"

\* resultant_typed_params[name] = value
SetItem(mapping, name, value) ==
    [n \in DOMAIN mapping \cup {name} |-> IF n = name THEN value ELSE mapping[n]]

\* The for loop over the existing parameters.  An exception of read_values, or
\* one the try block does not catch, leaves the loop and the method.
RECURSIVE types_loop(_, _, _, _)
types_loop(existing, data, invalid, resultant_typed_params) ==
    IF existing = <<>>
    THEN IF Len(invalid) > 0 THEN Ok(<<FALSE, build_param_type_message(invalid)>>)
         ELSE Ok(<<TRUE, resultant_typed_params>>)
    ELSE LET param == Head(existing)
             values == read_values(param, data)
         IN  IF ~IsOk(values) THEN values
             ELSE LET typed == cast_values(param, values[2])
                  IN  IF IsOk(typed)
                      THEN types_loop(Tail(existing), data, invalid,
                                      SetItem(resultant_typed_params, param.name, typed[2]))
                      ELSE IF Caught(typed[2])
                      THEN types_loop(Tail(existing), data,
                                      Append(invalid, param.name), resultant_typed_params)
                      ELSE typed

validate_param_types(cls_params, data) ==
    types_loop(existing_params(cls_params, data), data, <<>>, <<>>)

-----------------------------------------------------------------------------
(* The commands and requests of the model *)

\* command_name of the command the model declares
command_name == "greet"

ParamNames == {"age", "tags"}

Permissions == {"commands.run"}

\* What one posted value can be: a text, or an uploaded file.
Texts == {"5", "\"5\"", "\"not-a-number\"", "null", "[]", "[1, 2]",
          "[\"a\", \"b\"]", "[{}]", "{\"k\": 1}", "oops"}
RawItems == {PyStr(t) : t \in Texts} \cup {PyFile("f1")}

\* What the values of a repeated field are drawn from.
RepeatItems == {PyFile("f1"), PyStr("a")}

Singles(items) == {<<x>> : x \in items}
Repeats == UNION {[1..n -> RepeatItems] : n \in 2..MaxValues}

Defaults == {PyNone, PyInt(0), PyStr("x")}

\* The declarations of a command: parameters of distinct names, in any order.
ParamSeqs(types, reqs, defaults) ==
    LET decls == {Param(n, t, r, d) : n \in ParamNames, t \in types, r \in reqs, d \in defaults}
    IN  {ps \in UNION {[1..n -> decls] : n \in 0..Cardinality(ParamNames)} :
            \A i, j \in 1..Len(ps) : ps[i].name = ps[j].name => i = j}

\* The keys a request may carry for the name n: with anyKey both spellings,
\* otherwise the key of the parameter declared under n (n itself when none is).
KeysOf(ps, n, anyKey) ==
    IF anyKey THEN {n, n \o "[]"}
    ELSE IF \E i \in 1..Len(ps) : ps[i].name = n
    THEN {key(ps[i]) : i \in {j \in 1..Len(ps) : ps[j].name = n}}
    ELSE {n}

\* A field a form posts that no command declares, and its value.
CsrfKey == "csrfmiddlewaretoken"
CsrfValue == <<PyStr("t0ken")>>

\* The data of a request: at most one key per name, each with a list of
\* values, and with extras the form's own field or not.
DataSets(ps, values, anyKey, extras) ==
    LET keys == UNION {KeysOf(ps, n, anyKey) : n \in ParamNames}
        ok(K) == \A n \in ParamNames : Cardinality(K \cap {n, n \o "[]"}) <= 1
        named == UNION {[K -> values] : K \in {K \in SUBSET keys : ok(K)}}
        With(d) == [k \in DOMAIN d \cup {CsrfKey} |-> IF k = CsrfKey THEN CsrfValue ELSE d[k]]
    IN  named \cup (IF extras THEN {With(d) : d \in named} ELSE {})

Users(auths, perms) == [is_authenticated : auths, perms : perms]

InitOver(types, reqs, defaults, auths, permLists, users, values, anyKey, extras) ==
    /\ params \in ParamSeqs(types, reqs, defaults)
    /\ auth_required \in auths
    /\ required_permissions \in permLists
    /\ user \in users
    /\ command_data \in DataSets(params, values, anyKey, extras)
    /\ stage = "Received"
    /\ ran = <<>>
    /\ auth_result = NotRun
    /\ perm_result = NotRun
    /\ existence_result = NotRun
    /\ types_result = NotRun
    /\ definition = NotRun

\* Every combination of authentication and permissions, over a few types.
Init ==
    InitOver({TYPE_NUMBER, TYPE_STRING_ARRAY, TYPE_BLOB_ARRAY}, BOOLEAN, {PyNone},
             BOOLEAN, {<<>>, <<"commands.run">>}, Users(BOOLEAN, SUBSET Permissions),
             Singles({PyStr("5"), PyStr("null"), PyStr("\"not-a-number\""), PyFile("f1")}), FALSE, FALSE)

\* Every type, required or not, with each name posted under either spelling.
InitParams ==
    InitOver(TYPE, BOOLEAN, {PyNone}, {FALSE}, {<<>>}, Users({FALSE}, {{}}),
             {<<PyStr("[\"a\", \"b\"]")>>, <<PyStr("a"), PyStr("b")>>}, TRUE, TRUE)

\* Every type with every posted value.
InitTypes ==
    InitOver(TYPE, {FALSE}, {PyNone}, {FALSE}, {<<>>}, Users({FALSE}, {{}}),
             Singles(RawItems) \cup Repeats, FALSE, TRUE)

\* Every type, required or not, with every default.
InitDefinitions ==
    InitOver(TYPE, BOOLEAN, Defaults, {FALSE}, {<<>>}, Users({FALSE}, {{}}), {}, FALSE, FALSE)

-----------------------------------------------------------------------------
(* The request pipeline: auth, permissions, existence, types, then the handler *)

CheckAuth ==
    /\ stage = "Received"
    /\ auth_result' = Ok(validate_auth(auth_required, user))
    /\ ran' = Append(ran, "auth")
    /\ stage' = IF auth_result'[2] THEN "AuthChecked" ELSE "Rejected"
    /\ UNCHANGED <<contract, request, perm_result, existence_result, types_result, definition>>

CheckPermissions ==
    /\ stage = "AuthChecked"
    /\ perm_result' = Ok(validate_permissions(required_permissions, user))
    /\ ran' = Append(ran, "permissions")
    /\ stage' = IF perm_result'[2] THEN "PermissionChecked" ELSE "Rejected"
    /\ UNCHANGED <<contract, request, auth_result, existence_result, types_result, definition>>

CheckExistence ==
    /\ stage = "PermissionChecked"
    /\ existence_result' = Ok(validate_param_existence(params, command_data))
    /\ ran' = Append(ran, "existence")
    /\ stage' = IF existence_result'[2][1] THEN "ExistenceChecked" ELSE "Rejected"
    /\ UNCHANGED <<contract, request, auth_result, perm_result, types_result, definition>>

\* The dispatcher moves on what the check returns.  When the call raises
\* instead, nothing is returned to it: the exception leaves the dispatcher and
\* the request is left where it was, neither type-checked nor rejected.
CheckTypes ==
    /\ stage = "ExistenceChecked"
    /\ types_result = NotRun
    /\ types_result' = validate_param_types(params, command_data)
    /\ ran' = Append(ran, "types")
    /\ stage' = IF ~IsOk(types_result') THEN stage
                ELSE IF types_result'[2][1] THEN "TypeChecked" ELSE "Rejected"
    /\ UNCHANGED <<contract, request, auth_result, perm_result, existence_result, definition>>

\* The handler's handle(request, command_data) is called.
Dispatch ==
    /\ stage = "TypeChecked"
    /\ ran' = Append(ran, "handle")
    /\ stage' = "Dispatched"
    /\ UNCHANGED <<contract, request, auth_result, perm_result, existence_result,
                   types_result, definition>>

\* A definition request: to_definition is called on the command.
ToDefinition ==
    /\ definition = NotRun
    /\ definition' = Ok(to_definition(command_name, params))
    /\ UNCHANGED <<contract, request, stage, ran, auth_result, perm_result,
                   existence_result, types_result>>

Next ==
    \/ CheckAuth
    \/ CheckPermissions
    \/ CheckExistence
    \/ CheckTypes
    \/ Dispatch
    \/ ToDefinition

Spec == Init /\ [][Next]_vars
SpecParams == InitParams /\ [][Next]_vars
SpecTypes == InitTypes /\ [][Next]_vars
SpecDefinitions == InitDefinitions /\ [][Next]_vars

-----------------------------------------------------------------------------
(* Reading a message back *)

StartsWith(s, prefix) == Len(s) >= Len(prefix) /\ SubSeq(s, 1, Len(prefix)) = prefix

\* s.split(sep), for a non-empty sep
RECURSIVE SplitOn(_, _)
SplitOn(s, sep) ==
    LET hits == {i \in 1..(Len(s) - Len(sep) + 1) : SubSeq(s, i, i + Len(sep) - 1) = sep}
    IN  IF hits = {} THEN <<s>>
        ELSE LET i == CHOOSE h \in hits : \A g \in hits : h <= g
             IN  <<SubSeq(s, 1, i - 1)>> \o SplitOn(SubSeq(s, i + Len(sep), Len(s)), sep)

\* The names a message lists after its prefix
ListedNames(message, prefix) == SplitOn(SubSeq(message, Len(prefix) + 1, Len(message)), ", ")

Count(seq, x) == Cardinality({i \in 1..Len(seq) : seq[i] = x})

Indexes == 1..Len(params)

-----------------------------------------------------------------------------
(* Claims *)

\* The required parameters whose transport key the request does not carry
RequiredAbsent == {i \in Indexes : params[i].required /\ key(params[i]) \notin DOMAIN command_data}

\* C1: validate_param_existence fails exactly when a required parameter's
\* transport key is absent from the data; its message then lists every such
\* parameter's name exactly once and no other name; it succeeds (with an empty
\* message) only when no required parameter is missing.
C1_ExistenceListsEveryMissing ==
    existence_result # NotRun =>
        LET success == existence_result[2][1]
            message == existence_result[2][2]
            listed == ListedNames(message, MissingPrefix)
        IN  /\ success <=> RequiredAbsent = {}
            /\ success => message = ""
            /\ ~success =>
                /\ StartsWith(message, MissingPrefix)
                /\ \A i \in RequiredAbsent : Count(listed, params[i].name) = 1
                /\ \A k \in 1..Len(listed) : \E i \in RequiredAbsent : params[i].name = listed[k]

\* Two required parameters are missing while a key the command does not read is posted.
C1_Witness ==
    /\ existence_result # NotRun
    /\ ~existence_result[2][1]
    /\ Cardinality(RequiredAbsent) = 2
    /\ command_data # <<>>

\* C8: validate_auth returns true for every caller when auth_required is
\* false and the caller's is_authenticated flag when it is true, and the call
\* leaves the command's declaration and the request as they were.
C8_ValidateAuth ==
    /\ [](auth_result # NotRun =>
            /\ ~auth_required => auth_result[2] = TRUE
            /\ auth_required => auth_result[2] = user.is_authenticated)
    /\ [][(auth_result = NotRun /\ auth_result' # NotRun)
            => (contract' = contract /\ request' = request)]_vars

\* validate_auth has turned away an anonymous caller of a command that requires a login.
C8_Witness ==
    /\ auth_result = Ok(FALSE)
    /\ auth_required
    /\ ~user.is_authenticated

PipelineOrder == <<"auth", "permissions", "existence", "types", "handle">>

Succeeded(result) == result # NotRun /\ IsOk(result) /\ result[2] = TRUE

\* A check has failed: it returned a failure or, for the type check, raised.
AuthCheckFailed == auth_result = Ok(FALSE)
PermissionCheckFailed == perm_result = Ok(FALSE)
ExistenceCheckFailed == existence_result # NotRun /\ ~existence_result[2][1]
TypeCheckFailed == types_result # NotRun /\ ~(IsOk(types_result) /\ types_result[2][1])

\* C7 (as claimed): the checks run in the order auth, permissions, existence,
\* types; the first check that fails sends the request to Rejected and no
\* later check runs; the handler is called only once all four checks have
\* succeeded, so never for an anonymous caller of a command that requires a
\* login, whose parameters are not even looked at.
C7_PipelineOrder ==
    /\ Len(ran) <= Len(PipelineOrder)
    /\ ran = SubSeq(PipelineOrder, 1, Len(ran))
    /\ perm_result # NotRun => Succeeded(auth_result)
    /\ existence_result # NotRun => Succeeded(perm_result)
    /\ types_result # NotRun => existence_result # NotRun /\ existence_result[2][1]
    /\ (Len(ran) = 5 \/ stage = "Dispatched") =>
          /\ Succeeded(auth_result) /\ Succeeded(perm_result)
          /\ existence_result # NotRun /\ existence_result[2][1]
          /\ types_result # NotRun /\ IsOk(types_result) /\ types_result[2][1]
          /\ auth_required => user.is_authenticated
    /\ (AuthCheckFailed \/ PermissionCheckFailed \/ ExistenceCheckFailed \/ TypeCheckFailed)
          => stage = "Rejected"
    /\ stage = "Rejected" =>
          (AuthCheckFailed \/ PermissionCheckFailed \/ ExistenceCheckFailed \/ TypeCheckFailed)
    /\ (auth_required /\ ~user.is_authenticated) =>
          /\ existence_result = NotRun /\ types_result = NotRun
          /\ stage \in {"Received", "Rejected"}

\* The parameters whose transport key the request carries
Present == {i \in Indexes : key(params[i]) \in DOMAIN command_data}

\* The value posted for a parameter, as the request carries it
RawValue(param) ==
    IF param.type \in {TYPE_BLOB_ARRAY, TYPE_FILE_ARRAY}
    THEN PyList(command_data[key(param)])
    ELSE command_data[key(param)][Len(command_data[key(param)])]

\* Decoding the posted value, or coercing the decoded value, fails.
FailsToCoerce(param) ==
    LET read == read_values(param, command_data)
    IN  ~IsOk(read) \/ ~IsOk(cast_values(param, read[2]))

TypesReturned == types_result # NotRun /\ IsOk(types_result)
TypesSucceeded == TypesReturned /\ types_result[2][1]
TypesFailed == TypesReturned /\ ~types_result[2][1]
InvalidListed == ListedNames(types_result[2][2], WrongTypePrefix)

AllPresentSerialized == \A i \in Present : is_serialized(params[i])

\* C2 (as claimed): validate_param_types always returns a pair and never
\* raises; a present parameter whose value fails to decode or to coerce makes
\* it return a failure whose message names that parameter.  Stated of the
\* requests whose present parameters are all of the types that are decoded.
C2_NeverRaises ==
    (types_result # NotRun /\ AllPresentSerialized) =>
        /\ IsOk(types_result)
        /\ \A i \in Present : FailsToCoerce(params[i]) =>
              /\ TypesFailed
              /\ StartsWith(types_result[2][2], WrongTypePrefix)
              /\ Count(InvalidListed, params[i].name) = 1

\* The names of the present parameters that fail, in declared order
FailingNames ==
    LET failing == SelectSeq(params, LAMBDA param :
                        key(param) \in DOMAIN command_data /\ FailsToCoerce(param))
    IN  [k \in 1..Len(failing) |-> failing[k].name]

\* C3 (as claimed): when several present parameters fail to coerce,
\* validate_param_types returns one failure whose message names every one of
\* them, in declared order and once each, and no parameter that coerced.
\* Stated of the requests whose present parameters are all of the types that
\* are decoded.
C3_AccumulatesEveryInvalid ==
    (types_result # NotRun /\ AllPresentSerialized /\ Len(FailingNames) >= 2) =>
        /\ TypesFailed
        /\ InvalidListed = FailingNames

ElementType(type) ==
    CASE type = TYPE_NUMBER_ARRAY -> TYPE_NUMBER
      [] type = TYPE_STRING_ARRAY -> TYPE_STRING
      [] type = TYPE_OBJECT_ARRAY -> TYPE_OBJECT

\* A decoded value is of the declared type.
OfScalarType(type, v) ==
    CASE type = TYPE_NUMBER -> v[1] \in {"int", "float"}
      [] type = TYPE_STRING -> v[1] = "str"
      [] type = TYPE_OBJECT -> v[1] = "dict"

OfType(type, v) ==
    IF type \in {TYPE_NUMBER, TYPE_STRING, TYPE_OBJECT} THEN OfScalarType(type, v)
    ELSE v[1] = "list" /\ \A k \in 1..Len(v[2]) : OfScalarType(ElementType(type), v[2][k])

\* The declared type's coercion of a value of that type.
CoercedScalar(type, v) == IF type = TYPE_NUMBER THEN PyFloat(v[2]) ELSE v

Coerced(type, v) ==
    IF type \in {TYPE_NUMBER, TYPE_STRING, TYPE_OBJECT} THEN CoercedScalar(type, v)
    ELSE PyList([k \in 1..Len(v[2]) |-> CoercedScalar(ElementType(type), v[2][k])])

DecodedValue(param) == json_loads(RawValue(param))

WellTyped(param) ==
    /\ is_serialized(param)
    /\ IsOk(DecodedValue(param))
    /\ OfType(param.type, DecodedValue(param)[2])

IllTyped(param) ==
    /\ is_serialized(param)
    /\ IsOk(DecodedValue(param))
    /\ ~OfType(param.type, DecodedValue(param)[2])

\* C4 (as claimed): when every present parameter is well-typed,
\* validate_param_types succeeds and returns for each name the declared type's
\* coercion of the decoded value (a float for a number, the string, the mapping,
\* the element-wise coerced sequence, empty for an empty array); and a decoded
\* value that is not of the declared type is rejected, not converted.
C4_CoercesOrRejects ==
    types_result # NotRun =>
        /\ (\A i \in Present : WellTyped(params[i])) =>
              /\ TypesSucceeded
              /\ \A i \in Present :
                    types_result[2][2][params[i].name] =
                        Coerced(params[i].type, DecodedValue(params[i])[2])
        /\ (\E i \in Present : IllTyped(params[i])) => ~TypesSucceeded

\* C6 (as claimed): a parameter of type blob, file, blob[] or file[] is never
\* decoded: with only such parameters present validate_param_types raises
\* nothing and returns each posted value as it came.
C6_BinaryNeverDecoded ==
    (types_result # NotRun /\ \A i \in Present : ~is_serialized(params[i])) =>
        /\ TypesSucceeded
        /\ \A i \in Present : types_result[2][2][params[i].name] = RawValue(params[i])

\* C9 (as claimed): to_definition returns the command's name and one entry
\* per declared parameter, in declared order, with its name, type and required
\* flag, and with its default exactly when a default was declared, whatever the
\* default is.
C9_DefinitionCarriesDefaults ==
    definition # NotRun =>
        LET d == definition[2]
        IN  /\ d.name = command_name
            /\ Len(d.params) = Len(params)
            /\ \A i \in Indexes :
                  /\ d.params[i].name = params[i].name
                  /\ d.params[i].type = params[i].type
                  /\ d.params[i].required = params[i].required
                  /\ "default" \in DOMAIN d.params[i] <=> params[i].default # PyNone
                  /\ "default" \in DOMAIN d.params[i] => d.params[i].default = params[i].default

\* C10: when validate_param_types succeeds the names of the mapping it returns
\* are exactly the names of the declared parameters whose transport key is in
\* the data: an absent parameter gets no entry (its default is not filled in),
\* a key no parameter reads adds none; and the call leaves the declaration and
\* the data as they were, so calling it again returns the same mapping.
C10_ReturnsPresentNames ==
    /\ [](TypesSucceeded => DOMAIN types_result[2][2] = {params[i].name : i \in Present})
    /\ [][(types_result = NotRun /\ types_result' # NotRun)
            => (contract' = contract /\ request' = request)]_vars

\* A success with one parameter present, another declared but absent, and a
\* key posted that no parameter reads.
C10_Witness ==
    /\ TypesSucceeded
    /\ Len(params) = 2
    /\ Cardinality(Present) = 1
    /\ CsrfKey \in DOMAIN command_data

ArrayOrBinary == {TYPE_NUMBER_ARRAY, TYPE_STRING_ARRAY, TYPE_OBJECT_ARRAY,
                  TYPE_BLOB_ARRAY, TYPE_FILE_ARRAY, TYPE_BLOB, TYPE_FILE}

Suffixed(param) == param.name \o "[]"

ExistencePassedFor(param) ==
    /\ existence_result # NotRun
    /\ Count(ListedNames(existence_result[2][2], MissingPrefix), param.name) = 0

\* C5 (as claimed): the transport key is the name followed by "[]" for every
\* array type and every binary or file type, and the name itself for number,
\* string and object; so a required array parameter posted under name[] passes
\* the existence check.
C5_SuffixForEveryMultiValued ==
    existence_result # NotRun =>
        \A i \in Indexes :
            /\ params[i].type \in ArrayOrBinary => key(params[i]) = Suffixed(params[i])
            /\ params[i].type \notin ArrayOrBinary => key(params[i]) = params[i].name
            /\ (/\ params[i].required
                /\ params[i].type \in ArrayOrBinary
                /\ Suffixed(params[i]) \in DOMAIN command_data) => ExistencePassedFor(params[i])

====
